---- MODULE Spec2Model ----
(***************************************************************************)
(* State-machine model of the DOC RAG server backend:                      *)
(*   app/vectorstore.py  QdrantVectorStore over an external vector index   *)
(*   app/main.py         the request handlers                              *)
(*   app/ingest.py       ingest_data, the CSV/JSON readers, batching       *)
(*   app/llm.py          generate_answer, the provider fallback            *)
(***************************************************************************)
EXTENDS Integers, Sequences, FiniteSets, TLC

VARIABLES
    index,    \* the vector index service: collection name -> collection
    req,      \* request slot -> the handler it runs and its position
    acked,    \* ghost: point ids whose upsert was acknowledged (wait=True)
    nextId,   \* ghost: number of uuid4 identifiers handed out so far
    adapter,  \* one QdrantVectorStore driven method by method
    ing,      \* one ingest_data run
    js,       \* one _iter_json_records call
    llm       \* one generate_answer call

vars == <<index, req, acked, nextId, adapter, ing, js, llm>>

----------------------------------------------------------------------------
(* Bounds of the model *)

NumRequests == 2      \* request slots that may run concurrently
MaxPoints == 2        \* identifiers handed out in one behaviour
MaxBatchLen == 2      \* largest batch of one upsert in the handler model

----------------------------------------------------------------------------
(* The vector index service as the adapter uses it *)

DefaultCollection == "amazon_export"

Names == {DefaultCollection, "other"}

None == "None"

EmbDim == "dim_of_embedding_model"

ForeignDim == "dim_of_another_model"

Cosine == "COSINE"

Absent == [exists |-> FALSE, size |-> None, distance |-> None, points |-> {}]

NewCollection(dim) ==
    [exists |-> TRUE, size |-> dim, distance |-> Cosine, points |-> {}]

\* Identifier 0 stands for a point written before the behaviour starts.
OldIds == {0}

\* A collection found at start was made by this program (the embedding size,
\* cosine) or by another writer (another size and metric).
InitialCollections ==
    {Absent} \cup
    {[exists |-> TRUE, size |-> c[1], distance |-> c[2], points |-> ps] :
        c \in {<<EmbDim, Cosine>>, <<ForeignDim, "DOT">>}, ps \in SUBSET OldIds}

RecreateKeepingPoints(idx, n) ==
    IF idx[n].exists THEN idx ELSE [idx EXCEPT ![n] = NewCollection(EmbDim)]

\* client.recreate_collection: delete the collection, then create it anew.
RecreateIndex(idx, n) == [idx EXCEPT ![n] = NewCollection(EmbDim)]

\* A recreate that raises may already have deleted the collection.
RecreateFailed(idx, n) == {idx, [idx EXCEPT ![n] = Absent]}

DeleteIndex(idx, n) == [idx EXCEPT ![n] = Absent]

\* client.upsert is accepted when the collection exists with the vectors' size.
CanWrite(idx, n) == idx[n].exists /\ idx[n].size = EmbDim

UpsertIndex(idx, n, ids) == [idx EXCEPT ![n].points = @ \cup ids]

CountIndex(idx, n) == Cardinality(idx[n].points)

\* name or self.collection
Target(name, self) == IF name = None THEN self ELSE name

----------------------------------------------------------------------------
(* QdrantVectorStore._ensure_collection *)

\* The outcome of client.get_collection: it raises for an absent collection
\* and for any transport fault.
Lookup(idx, n, fault) ==
    IF fault THEN "error" ELSE IF idx[n].exists THEN "found" ELSE "notfound"

EnsureNeverCreates(lookup) == FALSE

\* exists = info is not None; except Exception: exists = False
EnsureMustCreate(lookup) == lookup # "found"

----------------------------------------------------------------------------
(* The request handlers of app/main.py, one client call per step *)

Requests == 1 .. NumRequests

Handlers ==
    {"health", "ingest", "chat", "search", "qdrant_collections",
     "qdrant_collection_info", "qdrant_count", "qdrant_delete_collection",
     "qdrant_recreate_collection"}

NamedHandlers ==
    {"qdrant_collection_info", "qdrant_count", "qdrant_delete_collection",
     "qdrant_recreate_collection"}

\* The collection the handler's adapter is constructed for.
HandlerNames(h) == IF h \in NamedHandlers THEN Names ELSE {DefaultCollection}

\* The first call of the handler after the adapter is constructed.
BodyPc(h) ==
    CASE h = "ingest" -> "upsert"
      [] h \in {"chat", "search"} -> "search"
      [] h = "qdrant_collections" -> "list"
      [] h = "qdrant_collection_info" -> "get_info"
      [] h = "qdrant_count" -> "count"
      [] h = "qdrant_delete_collection" -> "delete"
      [] h = "qdrant_recreate_collection" -> "recreate"

IdleReq ==
    [pc |-> "idle", h |-> None, name |-> None, lookup |-> None, wasAbsent |-> FALSE]

OffReq == [IdleReq EXCEPT !.pc = "off"]

FailedReq == [IdleReq EXCEPT !.pc = "failed"]

\* The handler moves on; one that raised keeps nothing of its request.
Goto(p, pc) ==
    req' = [req EXCEPT ![p] = IF pc = "failed" THEN FailedReq
                              ELSE [@ EXCEPT !.pc = pc, !.lookup = None]]

\* A request arrives.  health builds no adapter; ingest_data checks the data
\* root before it builds one; every other handler starts with the constructor.
Start(p) ==
    /\ req[p].pc \in {"idle", "done", "failed"}
    /\ \E h \in Handlers, n \in Names, rootExists \in BOOLEAN :
        /\ n \in HandlerNames(h)
        /\ req' = [req EXCEPT ![p] =
                IF h = "ingest" /\ ~rootExists THEN FailedReq
                ELSE [pc |-> IF h = "health" THEN "done" ELSE "get_collection",
                      h |-> h, name |-> n, lookup |-> None,
                      wasAbsent |-> ~index[n].exists]]
    /\ UNCHANGED <<index, acked, nextId, adapter, ing, js, llm>>

\* _ensure_collection, first half: the existence lookup.
GetCollection(p) ==
    /\ req[p].pc = "get_collection"
    /\ \E fault \in BOOLEAN :
        LET l == Lookup(index, req[p].name, fault) IN
        IF EnsureMustCreate(l)
        THEN req' = [req EXCEPT ![p].lookup = l, ![p].pc = "ensure_recreate"]
        ELSE Goto(p, BodyPc(req[p].h))
    /\ UNCHANGED <<index, acked, nextId, adapter, ing, js, llm>>

\* _ensure_collection, second half: recreate_collection when not exists.
EnsureRecreate(p) ==
    /\ req[p].pc = "ensure_recreate"
    /\ \/ /\ index' = RecreateIndex(index, req[p].name)
          /\ Goto(p, BodyPc(req[p].h))
       \/ /\ index' \in RecreateFailed(index, req[p].name)
          /\ Goto(p, "failed")
    /\ UNCHANGED <<acked, nextId, adapter, ing, js, llm>>

\* ingest_data: one store.upsert(batch) of freshly identified records.
Upsert(p) ==
    /\ req[p].pc = "upsert"
    /\ \E k \in 1 .. MaxBatchLen, fault \in BOOLEAN :
        /\ nextId + k <= MaxPoints
        /\ LET ids == (nextId + 1) .. (nextId + k) IN
           IF CanWrite(index, req[p].name) /\ ~fault
           THEN /\ index' = UpsertIndex(index, req[p].name, ids)
                /\ acked' = acked \cup ids
                /\ nextId' = nextId + k
                /\ UNCHANGED req
           ELSE /\ Goto(p, "failed")
                /\ UNCHANGED <<index, acked, nextId>>
    /\ UNCHANGED <<adapter, ing, js, llm>>

\* ingest_data returns {"ingested": total, "collection": ...}.
IngestReturn(p) ==
    /\ req[p].pc = "upsert"
    /\ Goto(p, "done")
    /\ UNCHANGED <<index, acked, nextId, adapter, ing, js, llm>>

\* store.search: raises unless the collection can be queried.
Search(p) ==
    /\ req[p].pc = "search"
    /\ \E fault \in BOOLEAN :
        IF CanWrite(index, req[p].name) /\ ~fault
        THEN Goto(p, IF req[p].h = "chat" THEN "generate" ELSE "done")
        ELSE Goto(p, "failed")
    /\ UNCHANGED <<index, acked, nextId, adapter, ing, js, llm>>

\* chat: await generate_answer; an error of the hosted provider propagates.
Generate(p) ==
    /\ req[p].pc = "generate"
    /\ \E ok \in BOOLEAN : Goto(p, IF ok THEN "done" ELSE "failed")
    /\ UNCHANGED <<index, acked, nextId, adapter, ing, js, llm>>

\* store.list_collections
ListCollections(p) ==
    /\ req[p].pc = "list"
    /\ \E ok \in BOOLEAN : Goto(p, IF ok THEN "done" ELSE "failed")
    /\ UNCHANGED <<index, acked, nextId, adapter, ing, js, llm>>

\* store.get_collection_info: raises for an absent collection.
GetInfo(p) ==
    /\ req[p].pc = "get_info"
    /\ \E fault \in BOOLEAN :
        Goto(p, IF index[req[p].name].exists /\ ~fault THEN "count" ELSE "failed")
    /\ UNCHANGED <<index, acked, nextId, adapter, ing, js, llm>>

\* store.count: any failure is swallowed and reported as 0.
Count(p) ==
    /\ req[p].pc = "count"
    /\ Goto(p, "done")
    /\ UNCHANGED <<index, acked, nextId, adapter, ing, js, llm>>

\* store.delete_collection
Delete(p) ==
    /\ req[p].pc = "delete"
    /\ \/ /\ index' = DeleteIndex(index, req[p].name)
          /\ Goto(p, "done")
       \/ /\ UNCHANGED index
          /\ Goto(p, "failed")
    /\ UNCHANGED <<acked, nextId, adapter, ing, js, llm>>

\* store.recreate_collection
Recreate(p) ==
    /\ req[p].pc = "recreate"
    /\ \/ /\ index' = RecreateIndex(index, req[p].name)
          /\ Goto(p, "done")
       \/ /\ index' \in RecreateFailed(index, req[p].name)
          /\ Goto(p, "failed")
    /\ UNCHANGED <<acked, nextId, adapter, ing, js, llm>>

RequestStep(p) ==
    \/ Start(p)
    \/ GetCollection(p)
    \/ EnsureRecreate(p)
    \/ Upsert(p)
    \/ IngestReturn(p)
    \/ Search(p)
    \/ Generate(p)
    \/ ListCollections(p)
    \/ GetInfo(p)
    \/ Count(p)
    \/ Delete(p)
    \/ Recreate(p)

Next == \E p \in Requests : RequestStep(p)

IdleAdapter == [collection |-> None, calls |-> <<>>]

IdleIngest == [pc |-> "off"]

IdleJson == [pc |-> "off"]

IdleLlm == [pc |-> "off"]

InitIndex ==
    /\ index \in [Names -> InitialCollections]
    /\ acked = {}
    /\ nextId = 0

\* Requests served concurrently.
Init ==
    /\ InitIndex
    /\ req = [p \in Requests |-> IdleReq]
    /\ adapter = IdleAdapter
    /\ ing = IdleIngest
    /\ js = IdleJson
    /\ llm = IdleLlm

Spec == Init /\ [][Next]_vars

\* Requests served one after the other: a single slot is in use.
InitSeq ==
    /\ InitIndex
    /\ req = [p \in Requests |-> IF p = 1 THEN IdleReq ELSE OffReq]
    /\ adapter = IdleAdapter
    /\ ing = IdleIngest
    /\ js = IdleJson
    /\ llm = IdleLlm

SpecSeq == InitSeq /\ [][Next]_vars

----------------------------------------------------------------------------
(* One QdrantVectorStore object, its methods called one after the other *)

AdapterArgs == Names \cup {None}

Call(op, target, ok, ret) == [op |-> op, target |-> target, ok |-> ok, ret |-> ret]

\* The adapter's last two method calls, oldest first.
Push(calls, c) == IF Len(calls) < 2 THEN Append(calls, c) ELSE <<calls[2], c>>

Called(c) == adapter' = [adapter EXCEPT !.calls = Push(@, c)]

\* QdrantVectorStore(collection): the constructor runs _ensure_collection.
AdapterConstruct ==
    /\ adapter.collection = None
    /\ \E n \in Names, fault \in BOOLEAN :
        IF EnsureMustCreate(Lookup(index, n, fault))
        THEN \/ /\ index' = RecreateIndex(index, n)
                /\ adapter' = [adapter EXCEPT !.collection = n]
             \/ /\ index' \in RecreateFailed(index, n)
                /\ UNCHANGED adapter
        ELSE /\ adapter' = [adapter EXCEPT !.collection = n]
             /\ UNCHANGED index
    /\ UNCHANGED <<req, acked, nextId, ing, js, llm>>

\* upsert(records): returns 0 for no records, without a call to the index.
AdapterUpsert ==
    /\ adapter.collection # None
    /\ \E k \in 0 .. MaxBatchLen, fault \in BOOLEAN :
        /\ nextId + k <= MaxPoints
        /\ LET ids == (nextId + 1) .. (nextId + k)
               n == adapter.collection IN
           IF k = 0
           THEN /\ Called(Call("upsert", n, TRUE, 0))
                /\ UNCHANGED <<index, acked, nextId>>
           ELSE IF CanWrite(index, n) /\ ~fault
           THEN /\ index' = UpsertIndex(index, n, ids)
                /\ acked' = acked \cup ids
                /\ nextId' = nextId + k
                /\ Called(Call("upsert", n, TRUE, k))
           ELSE /\ Called(Call("upsert", n, FALSE, None))
                /\ UNCHANGED <<index, acked, nextId>>
    /\ UNCHANGED <<req, ing, js, llm>>

\* count(collection): the exact count; 0 when the client raises (a fault, or
\* no such collection).
CountResult(idx, n, fault) ==
    IF fault \/ ~idx[n].exists THEN 0 ELSE CountIndex(idx, n)

AdapterCount ==
    /\ adapter.collection # None
    /\ \E a \in AdapterArgs, fault \in BOOLEAN :
        LET n == Target(a, adapter.collection) IN
        Called(Call("count", n, TRUE, CountResult(index, n, fault)))
    /\ UNCHANGED <<index, req, acked, nextId, ing, js, llm>>

\* get_collection_info(collection): raises for an absent collection.
AdapterGetInfo ==
    /\ adapter.collection # None
    /\ \E a \in AdapterArgs, fault \in BOOLEAN :
        LET n == Target(a, adapter.collection) IN
        Called(Call("get_collection_info", n, index[n].exists /\ ~fault, None))
    /\ UNCHANGED <<index, req, acked, nextId, ing, js, llm>>

\* search(query, limit)
AdapterSearch ==
    /\ adapter.collection # None
    /\ \E fault \in BOOLEAN :
        LET n == adapter.collection IN
        Called(Call("search", n, CanWrite(index, n) /\ ~fault, None))
    /\ UNCHANGED <<index, req, acked, nextId, ing, js, llm>>

\* delete_collection(name)
AdapterDelete ==
    /\ adapter.collection # None
    /\ \E a \in AdapterArgs :
        LET n == Target(a, adapter.collection) IN
        \/ /\ index' = DeleteIndex(index, n)
           /\ Called(Call("delete_collection", n, TRUE, None))
        \/ /\ UNCHANGED index
           /\ Called(Call("delete_collection", n, FALSE, None))
    /\ UNCHANGED <<req, acked, nextId, ing, js, llm>>

\* recreate_collection(name)
AdapterRecreate ==
    /\ adapter.collection # None
    /\ \E a \in AdapterArgs :
        LET n == Target(a, adapter.collection) IN
        \/ /\ index' = RecreateIndex(index, n)
           /\ Called(Call("recreate_collection", n, TRUE, None))
        \/ /\ index' \in RecreateFailed(index, n)
           /\ Called(Call("recreate_collection", n, FALSE, None))
    /\ UNCHANGED <<req, acked, nextId, ing, js, llm>>

NextAdapter ==
    \/ AdapterConstruct
    \/ AdapterUpsert
    \/ AdapterCount
    \/ AdapterGetInfo
    \/ AdapterSearch
    \/ AdapterDelete
    \/ AdapterRecreate

InitAdapter ==
    /\ InitIndex
    /\ req = [p \in Requests |-> OffReq]
    /\ adapter = IdleAdapter
    /\ ing = IdleIngest
    /\ js = IdleJson
    /\ llm = IdleLlm

SpecAdapter == InitAdapter /\ [][NextAdapter]_vars

----------------------------------------------------------------------------
(* Claims about the vector index adapter and the handlers *)

\* C1 (as claimed): when requests construct adapters concurrently, no
\* request's ensure discards points that an acknowledged upsert has written.
\* Stated for the ensure whose lookup truly reported the collection absent and
\* whose recreate succeeded: that step keeps every acknowledged point.
C1_NoDestructiveRace ==
    [][\A p \in Requests :
        (/\ req[p].pc = "ensure_recreate"
         /\ req[p].lookup = "notfound"
         /\ req'[p].pc = BodyPc(req[p].h))
        => (acked \cap index[req[p].name].points) \subseteq index'[req[p].name].points]_vars

\* C2 (as claimed): for a collection that already exists, a completed
\* _ensure_collection leaves its size, distance and points unchanged, whatever
\* the outcome of the get_collection lookup.
C2_EnsureIdempotent ==
    [][\A p \in Requests :
        (/\ req[p].pc \in {"get_collection", "ensure_recreate"}
         /\ index[req[p].name].exists
         /\ req'[p].pc # "failed")
        => index'[req[p].name] = index[req[p].name]]_vars

ReadOnlyHandlers == {"chat", "search", "qdrant_collections", "qdrant_collection_info", "qdrant_count"}

AfterEnsurePcs == {"upsert", "search", "generate", "list", "get_info", "count", "delete", "recreate"}

\* C10: in a sequential run every handler that builds an adapter has run
\* ensure before its first call, so the collection exists from then on; a
\* handler other than DELETE that returns leaves it existing; a read-only
\* handler on a name that was absent leaves it created and empty; DELETE on an
\* absent name sees it created, then deletes it and leaves it absent.
C10_EnsureSideEffect ==
    \A p \in Requests :
        LET r == req[p] IN
        /\ (r.pc \in AfterEnsurePcs) => index[r.name].exists
        /\ (r.pc = "done" /\ r.h \notin {"health", "qdrant_delete_collection"})
            => index[r.name].exists
        /\ (r.pc = "done" /\ r.h \in ReadOnlyHandlers /\ r.wasAbsent)
            => index[r.name] = NewCollection(EmbDim)
        /\ (r.pc = "delete" /\ r.wasAbsent) => index[r.name] = NewCollection(EmbDim)
        /\ (r.pc = "done" /\ r.h = "qdrant_delete_collection") => ~index[r.name].exists

C10_Witness ==
    \E p \in Requests :
        /\ req[p].pc = "done"
        /\ req[p].h = "qdrant_count"
        /\ req[p].wasAbsent
        /\ index[req[p].name] = NewCollection(EmbDim)

\* C7: a recreate_collection that returned, followed immediately by count on
\* the same name, gives 0, whatever the collection held before.
C7_RecreateThenCount ==
    (/\ Len(adapter.calls) = 2
     /\ adapter.calls[1].op = "recreate_collection"
     /\ adapter.calls[1].ok
     /\ adapter.calls[2].op = "count"
     /\ adapter.calls[2].target = adapter.calls[1].target)
    => adapter.calls[2].ret = 0

C7_Witness ==
    /\ Len(adapter.calls) = 2
    /\ adapter.calls[1].op = "recreate_collection"
    /\ adapter.calls[1].ok
    /\ adapter.calls[2].op = "count"
    /\ adapter.calls[2].target = adapter.calls[1].target
    /\ adapter.calls[2].ret = 0
    /\ index[adapter.calls[2].target].exists

----------------------------------------------------------------------------
(* app/llm.py: generate_answer(query, contexts) *)

MaxContexts == 4      \* longest context list given to generate_answer

FallbackContexts == 3

CtxTexts == {"c1", "c2", "c3", "c4"}

Queries == {"q1", "q2"}

\* Texts are sequences of tokens; the notice and the divider are one token each.
Notice == "[Hinweis] Kein LLM konfiguriert (OLLAMA_HOST oder OPENAI_API_KEY).\nTop-Treffer aus Qdrant:\n"

Divider == "\n---\n"

Min(a, b) == IF a <= b THEN a ELSE b

ContextLists == UNION {[1 .. k -> CtxTexts] : k \in 0 .. MaxContexts}

\* sep.join(parts)
RECURSIVE Join(_, _)
Join(parts, sep) ==
    IF Len(parts) = 0 THEN <<>>
    ELSE IF Len(parts) = 1 THEN <<parts[1]>>
    ELSE <<parts[1], sep>> \o Join(Tail(parts), sep)

TopContextsOffByOne(contexts) ==
    SubSeq(contexts, 1, Min(FallbackContexts + 1, Len(contexts)))

\* contexts[:3]
TopContexts(contexts) == SubSeq(contexts, 1, Min(FallbackContexts, Len(contexts)))

\* The last resort: the notice, then the joined top contexts.
FallbackText(contexts) == <<Notice>> \o Join(TopContexts(contexts), Divider)

\* What the POST to the local endpoint can come to: status 200 with a
\* "response" field, status 200 without one (data.get gives ""), status 200
\* with a body that is no JSON object, another status, a transport exception.
LocalOutcomes == {"200", "200_no_field", "200_bad_body", "non200", "exception"}

LocalAnyStatusReturns(outcome) == outcome \in {"200", "200_no_field", "non200"}

\* if resp.status_code == 200: return data.get("response", ""); an exception
\* inside the try block is passed over.
LocalReturns(outcome) == outcome \in {"200", "200_no_field"}

LocalText(outcome) == IF outcome = "200" THEN <<"local response">> ELSE <<>>

HostedOutcomes == {"content", "no_content", "raises"}

StartLlm(l) ==
    [pc |-> "local", query |-> l[1], contexts |-> l[2], localCfg |-> l[3],
     hostedCfg |-> l[4], calls |-> <<>>, local |-> None,
     ret |-> [kind |-> None, by |-> None, text |-> <<>>]]

Returned(kind, by, text) == [kind |-> kind, by |-> by, text |-> text]

\* if settings.ollama_host: POST /api/generate
CallLocal ==
    /\ llm.pc = "local"
    /\ llm.localCfg
    /\ \E o \in LocalOutcomes :
        llm' = IF LocalReturns(o)
               THEN [llm EXCEPT !.pc = "done", !.calls = Append(@, "local"), !.local = o,
                                !.ret = Returned("answer", "local", LocalText(o))]
               ELSE [llm EXCEPT !.pc = "hosted", !.calls = Append(@, "local"), !.local = o]
    /\ UNCHANGED <<index, req, acked, nextId, adapter, ing, js>>

\* settings.ollama_host is unset (or empty)
SkipLocal ==
    /\ llm.pc = "local"
    /\ ~llm.localCfg
    /\ llm' = [llm EXCEPT !.pc = "hosted"]
    /\ UNCHANGED <<index, req, acked, nextId, adapter, ing, js>>

\* if settings.openai_api_key: chat.completions.create; its errors propagate.
CallHosted ==
    /\ llm.pc = "hosted"
    /\ llm.hostedCfg
    /\ \E o \in HostedOutcomes :
        llm' = [llm EXCEPT !.pc = "done", !.calls = Append(@, "hosted"),
                    !.ret = IF o = "raises" THEN Returned("error", "hosted", <<>>)
                            ELSE Returned("answer", "hosted",
                                    IF o = "content" THEN <<"hosted completion">> ELSE <<>>)]
    /\ UNCHANGED <<index, req, acked, nextId, adapter, ing, js>>

\* Last resort: neither provider gave an answer and no hosted key is set.
Fallback ==
    /\ llm.pc = "hosted"
    /\ ~llm.hostedCfg
    /\ llm' = [llm EXCEPT !.pc = "done",
                          !.ret = Returned("fallback", None, FallbackText(llm.contexts))]
    /\ UNCHANGED <<index, req, acked, nextId, adapter, ing, js>>

NextLlm == CallLocal \/ SkipLocal \/ CallHosted \/ Fallback

InitLlm ==
    /\ index = [n \in Names |-> Absent]
    /\ acked = {}
    /\ nextId = 0
    /\ req = [p \in Requests |-> OffReq]
    /\ adapter = IdleAdapter
    /\ ing = IdleIngest
    /\ js = IdleJson
    /\ llm \in {StartLlm(l) : l \in Queries \X ContextLists \X BOOLEAN \X BOOLEAN}

SpecLlm == InitLlm /\ [][NextLlm]_vars

\* C4: providers are tried in the order local, hosted, fallback and the first
\* success wins: the local provider is called only when configured; its answer
\* is returned exactly when its call succeeded, and then the hosted provider is
\* not called; the hosted provider is called only with a key and only when the
\* local one is unconfigured or failed; the fallback is returned only when the
\* local one is unconfigured or failed and no key is set; an error reaching the
\* caller is never the local provider's.
C4_ProviderOrder ==
    LET localFailed == llm.local \in LocalOutcomes \ {"200", "200_no_field"}
        localSucceeded == llm.local \in {"200", "200_no_field"}
        has(x) == \E i \in 1 .. Len(llm.calls) : llm.calls[i] = x
    IN  /\ llm.calls \in {<<>>, <<"local">>, <<"hosted">>, <<"local", "hosted">>}
        /\ has("local") => llm.localCfg
        /\ has("hosted") => llm.hostedCfg /\ (~llm.localCfg \/ localFailed)
        /\ localSucceeded => llm.pc = "done" /\ llm.ret.by = "local" /\ ~has("hosted")
        /\ llm.ret.by = "local" => localSucceeded
        /\ llm.ret.kind = "fallback" => (~llm.localCfg \/ localFailed) /\ ~llm.hostedCfg
        /\ llm.ret.kind = "error" => llm.ret.by = "hosted"
        /\ (llm.pc = "done" /\ localFailed /\ ~llm.hostedCfg) => llm.ret.kind = "fallback"

C4_Witness ==
    /\ llm.pc = "done"
    /\ llm.calls = <<"local", "hosted">>
    /\ llm.local = "exception"
    /\ llm.ret = Returned("answer", "hosted", <<"hosted completion">>)

\* C5: with neither provider configured the result is the notice followed by
\* the first min(3, len) contexts in order with the divider between them and
\* nothing else; a later context that differs from the first three is not
\* part of it; no provider is called; the query does not matter.
C5_FallbackText ==
    (llm.pc = "done" /\ ~llm.localCfg /\ ~llm.hostedCfg) =>
        LET c == llm.contexts
            t == llm.ret.text
            k == IF Len(c) < 3 THEN Len(c) ELSE 3
        IN  /\ llm.ret.kind = "fallback"
            /\ llm.calls = <<>>
            /\ Len(t) = IF k = 0 THEN 1 ELSE 2 * k
            /\ t[1] = Notice
            /\ \A i \in 1 .. k : t[2 * i] = c[i]
            /\ \A i \in 1 .. (k - 1) : t[2 * i + 1] = Divider
            /\ \A i \in 4 .. Len(c) :
                (\A j \in 1 .. 3 : c[j] # c[i]) => (\A m \in 1 .. Len(t) : t[m] # c[i])

C5_Witness ==
    /\ llm.pc = "done"
    /\ ~llm.localCfg
    /\ ~llm.hostedCfg
    /\ llm.contexts = <<"c1", "c2", "c3", "c4">>
    /\ llm.ret.text = <<Notice, "c1", Divider, "c2", Divider, "c3">>

----------------------------------------------------------------------------
(* app/ingest.py: _iter_json_records(json_path) *)

MaxItems == 2         \* longest list inside a JSON document
MaxFields == 2        \* most fields of a JSON object root

\* A list item is a JSON object or something else (here a number).
ItemKinds == {"object", "number"}

ItemLists == UNION {[1 .. k -> ItemKinds] : k \in 0 .. MaxItems}

\* The value of one field of an object root: a list of items, or no list.
FieldValues ==
    {[isList |-> FALSE, items |-> <<>>]} \cup {[isList |-> TRUE, items |-> l] : l \in ItemLists}

FieldLists == UNION {[1 .. k -> FieldValues] : k \in 0 .. MaxFields}

\* The content of a .json file: not parseable, or a root that is a list, an
\* object (its fields in key order) or any other value.
JsonDocs ==
    {[root |-> "malformed", items |-> <<>>, fields |-> <<>>],
     [root |-> "scalar", items |-> <<>>, fields |-> <<>>]}
    \cup {[root |-> "list", items |-> l, fields |-> <<>>] : l \in ItemLists}
    \cup {[root |-> "dict", items |-> <<>>, fields |-> f] : f \in FieldLists}

\* lists = [v for v in content.values() if isinstance(v, list)]
RECURSIVE ListValues(_)
ListValues(fields) ==
    IF Len(fields) = 0 THEN <<>>
    ELSE IF fields[1].isList THEN <<fields[1].items>> \o ListValues(Tail(fields))
    ELSE ListValues(Tail(fields))

WholeRoot == "root"

JsonItemsLastList(doc) ==
    IF doc.root = "list" THEN doc.items
    ELSE IF doc.root = "dict"
    THEN LET lists == ListValues(doc.fields) IN
         IF Len(lists) > 0 THEN lists[Len(lists)] ELSE <<WholeRoot>>
    ELSE <<WholeRoot>>

\* items: the root list; the first list-valued field of an object root, or the
\* object itself as the only item; any other root as the only item.
JsonItems(doc) ==
    IF doc.root = "list" THEN doc.items
    ELSE IF doc.root = "dict"
    THEN LET lists == ListValues(doc.fields) IN
         IF Len(lists) > 0 THEN lists[1] ELSE <<WholeRoot>>
    ELSE <<WholeRoot>>

\* if not isinstance(item, dict): item = {"value": item}
Wrapped(doc, item) ==
    IF item = "object" \/ (item = WholeRoot /\ doc.root = "dict") THEN item
    ELSE "value:" \o item

\* VectorRecord(id=uuid4, metadata={source, row_index | item_index, type})
Record(id, type, file, i) == [id |-> id, type |-> type, file |-> file, idx |-> i]

StartJson(doc) == [pc |-> "load", doc |-> doc, items |-> <<>>, recs |-> <<>>, texts |-> <<>>]

\* json.loads(...); except Exception: return []
JsonParse ==
    /\ js.pc = "load"
    /\ js' = IF js.doc.root = "malformed" THEN [js EXCEPT !.pc = "returned"]
             ELSE [js EXCEPT !.pc = "items", !.items = JsonItems(js.doc)]
    /\ UNCHANGED <<index, req, acked, nextId, adapter, ing, llm>>

\* for i, item in enumerate(items): recs.append(VectorRecord(...))
JsonAppend ==
    /\ js.pc = "items"
    /\ Len(js.recs) < Len(js.items)
    /\ LET i == Len(js.recs) IN
       js' = [js EXCEPT !.recs = Append(@, Record(i + 1, "json", 1, i)),
                        !.texts = Append(@, Wrapped(js.doc, js.items[i + 1]))]
    /\ UNCHANGED <<index, req, acked, nextId, adapter, ing, llm>>

\* return recs
JsonReturn ==
    /\ js.pc = "items"
    /\ Len(js.recs) = Len(js.items)
    /\ js' = [js EXCEPT !.pc = "returned"]
    /\ UNCHANGED <<index, req, acked, nextId, adapter, ing, llm>>

NextJson == JsonParse \/ JsonAppend \/ JsonReturn

InitJson ==
    /\ index = [n \in Names |-> Absent]
    /\ acked = {}
    /\ nextId = 0
    /\ req = [p \in Requests |-> OffReq]
    /\ adapter = IdleAdapter
    /\ ing = IdleIngest
    /\ llm = IdleLlm
    /\ js \in {StartJson(d) : d \in JsonDocs}

SpecJson == InitJson /\ [][NextJson]_vars

\* C8: for a parseable file the records are: one per element of a list root;
\* for an object root one per element of its first list-valued field in key
\* order and of no other, or the object alone when no field is a list; one for
\* any other root.  Item indexes run 0 .. count-1 in item order.
C8_JsonRecordCount ==
    (js.pc = "returned" /\ js.doc.root # "malformed") =>
        LET d == js.doc
            n == Len(js.recs)
            isFirstList(j) == d.fields[j].isList /\ \A m \in 1 .. (j - 1) : ~d.fields[m].isList
        IN  /\ d.root = "list" =>
                n = Len(d.items) /\ \A i \in 1 .. n : js.texts[i] = Wrapped(d, d.items[i])
            /\ d.root = "dict" =>
                /\ \A j \in 1 .. Len(d.fields) : isFirstList(j) =>
                    /\ n = Len(d.fields[j].items)
                    /\ \A i \in 1 .. n : js.texts[i] = Wrapped(d, d.fields[j].items[i])
                /\ (\A j \in 1 .. Len(d.fields) : ~d.fields[j].isList) =>
                    n = 1 /\ js.texts = <<WholeRoot>>
            /\ d.root = "scalar" => n = 1 /\ js.texts = <<"value:root">>
            /\ \A i \in 1 .. n : js.recs[i].idx = i - 1 /\ js.recs[i].type = "json"

C8_Witness ==
    /\ js.pc = "returned"
    /\ js.doc.root = "dict"
    /\ Len(js.doc.fields) = 2
    /\ js.doc.fields[1].isList
    /\ js.doc.fields[2].isList
    /\ Len(js.doc.fields[1].items) = 1
    /\ Len(js.doc.fields[2].items) = 2
    /\ Len(js.recs) = 1

----------------------------------------------------------------------------
(* app/ingest.py: ingest_data(data_root, batch_size) *)

MaxFiles == 2         \* .csv and .json files found under the data root
MaxRows == 3          \* data rows of one .csv file
MaxBatchSize == 2     \* largest configured batch size

Ceil(n, b) == (n + b - 1) \div b

CheckRootNever(rootExists) == "build_store"

\* if not root.exists(): raise FileNotFoundError, before the store is built
CheckRoot(rootExists) == IF rootExists THEN "build_store" ELSE "raised"

BatchFullOffByOne(batch, size) == Len(batch) > size

\* if len(batch) >= size: yield batch
BatchFull(batch, size) == Len(batch) >= size

IdFromPosition(issued, i) == i

\* id=str(uuid.uuid4()): an identifier no earlier call has returned
FreshId(issued, i) == issued + 1

StartIngest(rootExists, bs, idx) ==
    [pc |-> "start", rootExists |-> rootExists, bs |-> bs, index0 |-> idx,
     store |-> None, err |-> None,
     csvLeft |-> 0, jsonLeft |-> 0, file |-> 0, i |-> 0,
     loaded |-> FALSE, pending |-> <<>>,
     batch |-> <<>>, calls |-> <<>>, total |-> 0,
     produced |-> <<>>, sizes |-> <<>>, result |-> None]

IdsOf(batch) == {batch[k].id : k \in 1 .. Len(batch)}

\* total += store.upsert(batch): the batch is written and acknowledged, or
\* the client raises and ingest_data ends with that error.
YieldBatch(g, b) ==
    LET call == [file |-> b[1].file, recs |-> b] IN
    \E fault \in BOOLEAN :
        IF CanWrite(index, g.store) /\ ~fault
        THEN /\ index' = UpsertIndex(index, g.store, IdsOf(b))
             /\ ing' = [g EXCEPT !.calls = Append(@, call), !.total = @ + Len(b),
                                 !.batch = <<>>]
        ELSE /\ UNCHANGED index
             /\ ing' = [g EXCEPT !.calls = Append(@, call), !.pc = "raised",
                                 !.err = "upsert failed", !.batch = <<>>]

\* _yield_batches: batch.append(x), and the batch is yielded once it is full.
TakeRecord(g, rec) ==
    LET b == Append(g.batch, rec)
        g1 == [g EXCEPT !.produced = Append(@, rec)]
    IN  /\ nextId' = nextId + 1
        /\ IF BatchFull(b, g.bs) THEN YieldBatch(g1, b)
           ELSE ing' = [g1 EXCEPT !.batch = b] /\ UNCHANGED index

\* _yield_batches at the end of its iterable: if batch: yield batch.
EndOfFile(g) ==
    /\ UNCHANGED nextId
    /\ IF Len(g.batch) > 0 THEN YieldBatch(g, g.batch)
       ELSE ing' = g /\ UNCHANGED index

\* root = Path(...); the existence check
IngestCheckRoot ==
    /\ ing.pc = "start"
    /\ ing' = IF CheckRoot(ing.rootExists) = "raised"
              THEN [ing EXCEPT !.pc = "raised", !.err = "FileNotFoundError"]
              ELSE [ing EXCEPT !.pc = "build_store"]
    /\ UNCHANGED <<index, req, acked, nextId, adapter, js, llm>>

\* store = QdrantVectorStore(); csv_files, json_files = rglob(...)
IngestBuildStore ==
    /\ ing.pc = "build_store"
    /\ \E fault \in BOOLEAN, nCsv \in 0 .. MaxFiles, nJson \in 0 .. MaxFiles :
        /\ nCsv + nJson <= MaxFiles
        /\ LET n == DefaultCollection
               g == [ing EXCEPT !.pc = "csv", !.store = n, !.csvLeft = nCsv,
                                !.jsonLeft = nJson, !.file = 1]
           IN IF EnsureMustCreate(Lookup(index, n, fault))
              THEN \/ /\ index' = RecreateIndex(index, n)
                      /\ ing' = g
                   \/ /\ index' \in RecreateFailed(index, n)
                      /\ ing' = [ing EXCEPT !.pc = "raised", !.err = "recreate failed"]
              ELSE /\ UNCHANGED index
                   /\ ing' = g
    /\ UNCHANGED <<req, acked, nextId, adapter, js, llm>>

\* for i, row in enumerate(reader): the reader gives one more data row.
CsvRow ==
    /\ ing.pc = "csv"
    /\ ing.csvLeft > 0
    /\ ing.i < MaxRows
    /\ TakeRecord([ing EXCEPT !.i = @ + 1],
                  Record(FreshId(nextId, ing.i), "csv", <<"csv", ing.file>>, ing.i))
    /\ UNCHANGED <<req, acked, adapter, js, llm>>

\* The reader is exhausted: the rest of the batch goes out, the next file is due.
CsvEnd ==
    /\ ing.pc = "csv"
    /\ ing.csvLeft > 0
    /\ EndOfFile([ing EXCEPT !.csvLeft = @ - 1, !.file = @ + 1, !.i = 0,
                             !.sizes = Append(@, [file |-> <<"csv", ing.file>>, n |-> ing.i])])
    /\ UNCHANGED <<req, acked, adapter, js, llm>>

\* The loop over csv_files is over; the loop over json_files begins.
CsvDone ==
    /\ ing.pc = "csv"
    /\ ing.csvLeft = 0
    /\ ing' = [ing EXCEPT !.pc = "json", !.file = 1]
    /\ UNCHANGED <<index, req, acked, nextId, adapter, js, llm>>

\* recs = _iter_json_records(fp): the whole file is read and turned into items.
JsonLoad ==
    /\ ing.pc = "json"
    /\ ing.jsonLeft > 0
    /\ ~ing.loaded
    /\ \E doc \in JsonDocs :
        LET n == IF doc.root = "malformed" THEN 0 ELSE Len(JsonItems(doc)) IN
        /\ nextId' = nextId + n
        /\ ing' = [ing EXCEPT !.loaded = TRUE, !.i = n,
                     !.pending = [k \in 1 .. n |->
                        Record(FreshId(nextId + k - 1, k - 1), "json", <<"json", ing.file>>, k - 1)]]
    /\ UNCHANGED <<index, req, acked, adapter, js, llm>>

\* for batch in _yield_batches(recs, bs): the next record of the file.
JsonItem ==
    /\ ing.pc = "json"
    /\ ing.loaded
    /\ Len(ing.pending) > 0
    /\ LET rec == Head(ing.pending)
           g == [ing EXCEPT !.pending = Tail(@)]
           b == Append(g.batch, rec)
           g1 == [g EXCEPT !.produced = Append(@, rec)]
       IN  IF BatchFull(b, g.bs) THEN YieldBatch(g1, b)
           ELSE ing' = [g1 EXCEPT !.batch = b] /\ UNCHANGED index
    /\ UNCHANGED <<req, acked, nextId, adapter, js, llm>>

\* recs is exhausted: the rest of the batch goes out, the next file is due.
JsonEnd ==
    /\ ing.pc = "json"
    /\ ing.loaded
    /\ Len(ing.pending) = 0
    /\ EndOfFile([ing EXCEPT !.jsonLeft = @ - 1, !.file = @ + 1, !.i = 0, !.loaded = FALSE,
                             !.sizes = Append(@, [file |-> <<"json", ing.file>>, n |-> ing.i])])
    /\ UNCHANGED <<req, acked, adapter, js, llm>>

\* return {"ingested": total, "collection": store.collection}
IngestDataReturn ==
    /\ ing.pc = "json"
    /\ ing.jsonLeft = 0
    /\ ing' = [ing EXCEPT !.pc = "returned",
                          !.result = [ingested |-> ing.total, collection |-> ing.store]]
    /\ UNCHANGED <<index, req, acked, nextId, adapter, js, llm>>

NextIngest ==
    \/ IngestCheckRoot
    \/ IngestBuildStore
    \/ CsvRow
    \/ CsvEnd
    \/ CsvDone
    \/ JsonLoad
    \/ JsonItem
    \/ JsonEnd
    \/ IngestDataReturn

InitIngest ==
    /\ index \in {[n \in Names |-> IF n = DefaultCollection THEN c ELSE Absent] :
                    c \in InitialCollections}
    /\ acked = {}
    /\ nextId = 0
    /\ req = [p \in Requests |-> OffReq]
    /\ adapter = IdleAdapter
    /\ js = IdleJson
    /\ llm = IdleLlm
    /\ ing \in {StartIngest(r, b, index) : r \in BOOLEAN, b \in 1 .. MaxBatchSize}

SpecIngest == InitIngest /\ [][NextIngest]_vars

\* Claims about ingest_data

CallsOf(f) == {k \in 1 .. Len(ing.calls) : ing.calls[k].file = f}

LastSize(n, b) == IF n % b = 0 THEN b ELSE n % b

\* C3 (as claimed): a run that produces N records in total with batch size B
\* issues exactly ceil(N/B) upsert calls, each of at most B records, the last
\* of N mod B records (B when N is divisible by B).
C3_BatchesOverRun ==
    ing.pc = "returned" =>
        LET N == Len(ing.produced)
            B == ing.bs
            c == ing.calls
        IN  /\ Len(c) = Ceil(N, B)
            /\ \A k \in 1 .. Len(c) : Len(c[k].recs) <= B
            /\ N > 0 => Len(c[Len(c)].recs) = LastSize(N, B)

\* C3 (amended): batches are formed file by file.  In a run that returns,
\* a file that produced n records caused exactly ceil(n/B) upsert calls, each
\* of at least 1 and at most B records, the last of n mod B records (B when n
\* is divisible by B); every upsert call belongs to one file.
C3_BatchesPerFile ==
    ing.pc = "returned" =>
        LET B == ing.bs
            c == ing.calls
        IN  /\ \A s \in 1 .. Len(ing.sizes) :
                LET f == ing.sizes[s].file
                    n == ing.sizes[s].n
                    ks == CallsOf(f)
                IN  /\ Cardinality(ks) = Ceil(n, B)
                    /\ \A k \in ks : Len(c[k].recs) >= 1 /\ Len(c[k].recs) <= B
                    /\ \A k \in ks : (\A m \in ks : m <= k) => Len(c[k].recs) = LastSize(n, B)
            /\ \A k \in 1 .. Len(c) : \E s \in 1 .. Len(ing.sizes) : ing.sizes[s].file = c[k].file

C3_Witness ==
    /\ ing.pc = "returned"
    /\ ing.bs = 2
    /\ Len(ing.sizes) = 2
    /\ ing.sizes[1].n = 3
    /\ ing.sizes[2].n = 1
    /\ Len(ing.calls) = 3

\* C6: with the data root missing ingest_data raises the not-found error at
\* once: no store is built, the index is as it was, no file is read, no record
\* is made and no upsert is issued.
C6_MissingRoot ==
    ~ing.rootExists =>
        /\ ing.pc \in {"start", "raised"}
        /\ ing.pc = "raised" => ing.err = "FileNotFoundError"
        /\ ing.store = None
        /\ index = ing.index0
        /\ ing.calls = <<>>
        /\ ing.produced = <<>>
        /\ ing.sizes = <<>>
        /\ nextId = 0

C6_Witness ==
    /\ ~ing.rootExists
    /\ ing.pc = "raised"
    /\ ing.err = "FileNotFoundError"
    /\ ~index[DefaultCollection].exists

RECURSIVE SumSizes(_)
SumSizes(sizes) == IF Len(sizes) = 0 THEN 0 ELSE sizes[1].n + SumSizes(Tail(sizes))

\* C9: in a run that returns (every upsert succeeded) the readers produced one
\* record per row or item of every file, each record went out in exactly one
\* position of exactly one upsert call, record ids are pairwise distinct, and
\* the returned count equals the number of records produced and the number of
\* points the run added to the collection.
C9_EachRecordOnce ==
    ing.pc = "returned" =>
        LET P == ing.produced
            c == ing.calls
            slots == {<<k, j>> \in (1 .. Len(c)) \X (1 .. MaxBatchSize + 1) : j <= Len(c[k].recs)}
        IN  /\ \A i \in 1 .. Len(P) :
                Cardinality({s \in slots : c[s[1]].recs[s[2]] = P[i]}) = 1
            /\ \A s \in slots : \E i \in 1 .. Len(P) : P[i] = c[s[1]].recs[s[2]]
            /\ \A i, j \in 1 .. Len(P) : i # j => P[i].id # P[j].id
            /\ \A s \in 1 .. Len(ing.sizes) : \A i \in 0 .. (ing.sizes[s].n - 1) :
                Cardinality({m \in 1 .. Len(P) :
                    P[m].file = ing.sizes[s].file /\ P[m].idx = i}) = 1
            /\ Len(P) = SumSizes(ing.sizes)
            /\ ing.result.ingested = Len(P)
            /\ index[ing.store].points \ OldIds = IdsOf(P)
            /\ Cardinality(index[ing.store].points \ OldIds) = Len(P)

C9_Witness ==
    /\ ing.pc = "returned"
    /\ Len(ing.sizes) = 2
    /\ ing.sizes[1] = [file |-> <<"csv", 1>>, n |-> 2]
    /\ ing.sizes[2] = [file |-> <<"json", 1>>, n |-> 2]
    /\ ing.result.ingested = 4

====
